---- MODULE Spec2Model ----
(***************************************************************************)
(* Model of sigma/backends/surrealql/surrealql.py: the SurrealQLBackend    *)
(* class (a table of class attributes) and the two methods it defines,     *)
(* finalize_query_default and escape_and_quote_field.                      *)
(*                                                                         *)
(* Strings the two methods process are sequences of one-character strings, *)
(* so that str.replace and f-string concatenation are computed character   *)
(* by character.  Configuration strings that no method of this file reads  *)
(* are atomic TLA+ strings.  A Python value is a record [type, val]; None  *)
(* is the value of type "NoneType".                                        *)
(***************************************************************************)
EXTENDS Integers, Sequences, FiniteSets, TLC

VARIABLES backend, prev, last

vars == <<backend, prev, last>>

----------------------------------------------------------------------------
(* Python values *)

PyStr(s) == [type |-> "str", val |-> s]

PyNone == [type |-> "NoneType", val |-> <<>>]

(* Outcome of a call: a returned value or a raised exception. *)
Return(v) == [outcome |-> "return", value |-> v, exc |-> "-"]

Raise(e) == [outcome |-> "raise", value |-> PyNone, exc |-> e]

(* All sequences over S of length at most n. *)
SeqsUpTo(S, n) == UNION {[1..k -> S] : k \in 0..n}

----------------------------------------------------------------------------
(* Bounds and input sets *)

MaxFieldLen == 2

MaxQueryLen == 1

FieldChars == {"a", " ", "_"}

QueryChars == {"a", ";"}

ProcessName == <<"P","r","o","c","e","s","s"," ","N","a","m","e">>

(* Field names beyond the enumerated short ones: the spec's example, names
   with characters outside [a-zA-Z0-9_], and the colliding pair a b / a_b. *)
ExtraFieldNames ==
    { ProcessName,
      <<"a"," ","b">>, <<"a","_","b">>,
      <<"a",".","b">>, <<"'","a","'">>, <<"a"," ",".">> }

FieldNames == SeqsUpTo(FieldChars, MaxFieldLen) \cup ExtraFieldNames

FieldNameArgs == {PyStr(f) : f \in FieldNames} \cup {PyNone}

(* The source text of the f-string on line 189. *)
TemplateText ==
    <<"S","E","L","E","C","T"," ","*"," ","F","R","O","M"," ",
      "{","s","e","l","f",".","t","a","b","l","e","}",
      " ","W","H","E","R","E"," ","{","q","u","e","r","y","}",";">>

ExtraQueries ==
    { <<"{","q","u","e","r","y","}">>, <<"{","}">>, TemplateText }

Queries == SeqsUpTo(QueryChars, MaxQueryLen) \cup ExtraQueries

QueryArgs == {PyStr(q) : q \in Queries} \cup {PyNone}

(* SigmaRule, reduced to the attribute the method's comment mentions. *)
Rules == { [fields |-> <<>>], [fields |-> << <<"a">>, <<"b">> >>] }

Indexes == {0, 1}

(* ConversionState: processing_state entries and deferred expressions. *)
ConversionStates ==
    { [processing_state |-> <<>>, deferred |-> <<>>],
      [processing_state |-> <<>>, deferred |-> << <<"d">> >>] }

----------------------------------------------------------------------------
(* The class attributes of SurrealQLBackend *)

SurrealQLBackend ==
    [ name                         |-> "SurrealQL backend",
      formats                      |-> [default |-> "Plain SurrealQL queries"],
      precedence                   |-> <<"ConditionNOT", "ConditionAND", "ConditionOR">>,
      parenthesize                 |-> TRUE,
      group_expression             |-> <<"(","{","e","x","p","r","}",")">>,
      token_separator              |-> " ",
      or_token                     |-> "OR",
      and_token                    |-> "AND",
      not_token                    |-> "NOT",
      eq_token                     |-> "=",
      field_quote                  |-> <<"'">>,
      field_quote_pattern          |-> "^[a-zA-Z0-9_]*$",
      field_quote_pattern_negation |-> TRUE,
      str_quote                    |-> "'",
      escape_char                  |-> "\\",
      add_escaped                  |-> "\\",
      bool_values                  |-> [true |-> "TRUE", false |-> "FALSE"],
      startswith_expression        |-> "string::starts_with({field},{value})",
      endswith_expression          |-> "string::ends_with({field},{value})",
      contains_expression          |-> "string::contains({field},{value})",
      wildcard_match_expression    |-> "string::matches({field},{value})",
      wildcard_match_str_expression |-> "{field}=/{value}/",
      re_expression                |-> "{field}=/{regex}/",
      re_escape_char               |-> "",
      re_escape                    |-> <<>>,
      re_escape_escape_char        |-> TRUE,
      re_flag_prefix               |-> TRUE,
      cidr_expression              |-> "None",
      compare_op_expression        |-> "{field} {operator} {value}",
      compare_operators            |-> [LT |-> "<", LTE |-> "<=", GT |-> ">", GTE |-> ">="],
      field_equals_field_expression |-> "None",
      field_equals_field_escaping_quoting |-> <<TRUE, TRUE>>,
      field_null_expression        |-> "{field} IS NULL",
      field_exists_expression      |-> "{field} IS NOT NONE",
      field_not_exists_expression  |-> "{field} IS NONE",
      convert_or_as_in             |-> FALSE,
      convert_and_as_in            |-> FALSE,
      in_expressions_allow_wildcards |-> FALSE,
      field_in_list_expression     |-> "{field} {op} [{list}]",
      or_in_operator               |-> "IN",
      and_in_operator              |-> "CONTAINSALL",
      list_separator               |-> ", ",
      deferred_start               |-> <<>>,
      deferred_separator           |-> <<>>,
      deferred_only_query          |-> <<>>,
      table                        |-> <<"<","T","A","B","L","E","_","N","A","M","E",">">> ]

----------------------------------------------------------------------------
(* Python built-ins the two methods use *)

(* str.replace(old, new) for a non-empty old: scanning left to right, every
   non-overlapping occurrence of old is replaced by new. *)
RECURSIVE str_replace(_, _, _)
str_replace(s, old, new) ==
    IF Len(s) < Len(old) THEN s
    ELSE IF SubSeq(s, 1, Len(old)) = old
         THEN new \o str_replace(SubSeq(s, Len(old) + 1, Len(s)), old, new)
         ELSE <<Head(s)>> \o str_replace(Tail(s), old, new)

(* What a replacement field {v} of an f-string contributes: format(v, ""),
   the string itself for a str and the text None for None. *)
format(v) ==
    IF v.type = "str" THEN v.val ELSE <<"N","o","n","e">>

----------------------------------------------------------------------------
(* The two methods.  Each yields its outcome together with the objects it
   was handed as they are when it ends. *)

(* A variant that keeps a trailing terminator out of the template. *)
finalize_query_default_no_terminator(self, rule, query, index, state) ==
    [ result |-> Return(PyStr(
          <<"S","E","L","E","C","T"," ","*"," ","F","R","O","M"," ">>
          \o format(PyStr(self.table))
          \o <<" ","W","H","E","R","E"," ">> \o format(query))),
      self |-> self, rule |-> rule, state |-> state ]

(* A variant that refuses an empty condition. *)
finalize_query_default_validating(self, rule, query, index, state) ==
    IF format(query) = <<>>
    THEN [ result |-> Raise("ValueError"),
           self |-> self, rule |-> rule, state |-> state ]
    ELSE [ result |-> Return(PyStr(
               <<"S","E","L","E","C","T"," ","*"," ","F","R","O","M"," ">>
               \o format(PyStr(self.table))
               \o <<" ","W","H","E","R","E"," ">> \o format(query) \o <<";">>)),
           self |-> self, rule |-> rule, state |-> state ]

(* ", ".join(names) *)
RECURSIVE join_fields(_)
join_fields(names) ==
    IF names = <<>> THEN <<>>
    ELSE IF Len(names) = 1 THEN Head(names)
    ELSE Head(names) \o <<",", " ">> \o join_fields(Tail(names))

(* A variant with the commented-out field selection of lines 185-186 active. *)
finalize_query_default_rule_fields(self, rule, query, index, state) ==
    LET fields == IF Len(rule.fields) = 0 THEN <<"*">>
                  ELSE <<"*", ",", " ">> \o join_fields(rule.fields)
    IN [ result |-> Return(PyStr(
             <<"S","E","L","E","C","T"," ">> \o fields \o <<" ","F","R","O","M"," ">>
             \o format(PyStr(self.table))
             \o <<" ","W","H","E","R","E"," ">> \o format(query) \o <<";">>)),
         self |-> self, rule |-> rule, state |-> state ]

(* A variant that records the finished statement in the conversion state. *)
finalize_query_default_recording(self, rule, query, index, state) ==
    LET sqlite_query ==
            <<"S","E","L","E","C","T"," ","*"," ","F","R","O","M"," ">>
            \o format(PyStr(self.table))
            \o <<" ","W","H","E","R","E"," ">> \o format(query) \o <<";">>
    IN [ result |-> Return(PyStr(sqlite_query)),
         self |-> self, rule |-> rule,
         state |-> [state EXCEPT !.processing_state = Append(@, sqlite_query)] ]

(* sqlite_query = f"SELECT * FROM {self.table} WHERE {query};"; return it. *)
finalize_query_default(self, rule, query, index, state) ==
    LET sqlite_query ==
            <<"S","E","L","E","C","T"," ","*"," ","F","R","O","M"," ">>
            \o format(PyStr(self.table))
            \o <<" ","W","H","E","R","E"," ">>
            \o format(query)
            \o <<";">>
    IN [ result |-> Return(PyStr(sqlite_query)),
         self |-> self, rule |-> rule, state |-> state ]

(* str.replace(old, new, 1): only the first occurrence is replaced. *)
RECURSIVE str_replace_first(_, _, _)
str_replace_first(s, old, new) ==
    IF Len(s) < Len(old) THEN s
    ELSE IF SubSeq(s, 1, Len(old)) = old
         THEN new \o SubSeq(s, Len(old) + 1, Len(s))
         ELSE <<Head(s)>> \o str_replace_first(Tail(s), old, new)

(* A variant that replaces the first space only. *)
escape_and_quote_field_first_only(self, field_name) ==
    IF field_name.type # "str"
    THEN [result |-> Raise("AttributeError"), self |-> self]
    ELSE [ result |-> Return(PyStr(str_replace_first(field_name.val, <<" ">>, <<"_">>))),
           self |-> self ]

(* The characters the class [a-zA-Z0-9_] admits. *)
WordChars ==
    { "a","b","c","d","e","f","g","h","i","j","k","l","m",
      "n","o","p","q","r","s","t","u","v","w","x","y","z",
      "A","B","C","D","E","F","G","H","I","J","K","L","M",
      "N","O","P","Q","R","S","T","U","V","W","X","Y","Z",
      "0","1","2","3","4","5","6","7","8","9","_" }

(* A variant that also quotes as field_quote, field_quote_pattern and
   field_quote_pattern_negation ask: a name the pattern does not match is
   put between field_quote characters. *)
escape_and_quote_field_quoting(self, field_name) ==
    IF field_name.type # "str"
    THEN [result |-> Raise("AttributeError"), self |-> self]
    ELSE LET escaped == str_replace(field_name.val, <<" ">>, <<"_">>)
             match   == \A i \in 1..Len(escaped) : escaped[i] \in WordChars
             quote   == IF self.field_quote_pattern_negation THEN ~match ELSE match
         IN [ result |-> Return(PyStr(
                  IF quote THEN self.field_quote \o escaped \o self.field_quote
                  ELSE escaped)),
              self |-> self ]

(* A variant with the arguments of replace exchanged. *)
escape_and_quote_field_swapped(self, field_name) ==
    IF field_name.type # "str"
    THEN [result |-> Raise("AttributeError"), self |-> self]
    ELSE [ result |-> Return(PyStr(str_replace(field_name.val, <<"_">>, <<" ">>))),
           self |-> self ]

(* A variant that drops spaces instead of replacing them. *)
escape_and_quote_field_dropping(self, field_name) ==
    IF field_name.type # "str"
    THEN [result |-> Raise("AttributeError"), self |-> self]
    ELSE [ result |-> Return(PyStr(str_replace(field_name.val, <<" ">>, <<>>))),
           self |-> self ]

(* A variant that refuses an empty field name. *)
escape_and_quote_field_nonempty(self, field_name) ==
    IF field_name.type # "str"
    THEN [result |-> Raise("AttributeError"), self |-> self]
    ELSE IF field_name.val = <<>>
    THEN [result |-> Raise("ValueError"), self |-> self]
    ELSE [ result |-> Return(PyStr(str_replace(field_name.val, <<" ">>, <<"_">>))),
           self |-> self ]

(* return field_name.replace(" ", "_"); the attribute lookup .replace on a
   value that is no str (None) raises AttributeError. *)
escape_and_quote_field(self, field_name) ==
    IF field_name.type # "str"
    THEN [result |-> Raise("AttributeError"), self |-> self]
    ELSE [ result |-> Return(PyStr(str_replace(field_name.val, <<" ">>, <<"_">>))),
           self |-> self ]

----------------------------------------------------------------------------
(* State: the backend object and the two most recent calls made on it. *)

NoCall == [fn |-> "none"]

Init ==
    /\ backend = SurrealQLBackend
    /\ prev = NoCall
    /\ last = NoCall

CallFinalizeQueryDefault ==
    \E rule \in Rules, query \in QueryArgs, index \in Indexes,
       state \in ConversionStates :
        LET eff == finalize_query_default(backend, rule, query, index, state)
        IN /\ backend' = eff.self
           /\ prev' = last
           /\ last' = [ fn          |-> "finalize_query_default",
                        rule        |-> rule,
                        query       |-> query,
                        index       |-> index,
                        state       |-> state,
                        result      |-> eff.result,
                        rule_after  |-> eff.rule,
                        state_after |-> eff.state ]

CallEscapeAndQuoteField ==
    \E field_name \in FieldNameArgs :
        LET eff == escape_and_quote_field(backend, field_name)
        IN /\ backend' = eff.self
           /\ prev' = last
           /\ last' = [ fn         |-> "escape_and_quote_field",
                        field_name |-> field_name,
                        result     |-> eff.result ]

Next ==
    \/ CallFinalizeQueryDefault
    \/ CallEscapeAndQuoteField

Spec == Init /\ [][Next]_vars

----------------------------------------------------------------------------
(* Vocabulary of the properties *)

IsFinalize(c) == c.fn = "finalize_query_default"

IsEscape(c) == c.fn = "escape_and_quote_field"

(* A call of escape_and_quote_field on a str. *)
IsEscapeStr(c) == IsEscape(c) /\ c.field_name.type = "str"

(* A call of finalize_query_default on a str condition. *)
IsFinalizeStr(c) == IsFinalize(c) /\ c.query.type = "str"

HasSpace(s) == \E i \in 1..Len(s) : s[i] = " "

(* "SELECT * FROM <TABLE_NAME> WHERE " *)
StatementPrefix ==
    <<"S","E","L","E","C","T"," ","*"," ","F","R","O","M"," ",
      "<","T","A","B","L","E","_","N","A","M","E",">",
      " ","W","H","E","R","E"," ">>

(* "SELECT * FROM <TABLE_NAME>" *)
SelectAllFromTable ==
    <<"S","E","L","E","C","T"," ","*"," ","F","R","O","M"," ",
      "<","T","A","B","L","E","_","N","A","M","E",">">>

Process_Name == <<"P","r","o","c","e","s","s","_","N","a","m","e">>

----------------------------------------------------------------------------
(* C1: escape_and_quote_field on a field name returns a string of the same
   length that holds an underscore wherever the name holds a space and the
   name's own character everywhere else; "Process Name" gives
   "Process_Name". *)
C1_SpacesBecomeUnderscores ==
    IsEscapeStr(last) =>
        LET f == last.field_name.val
            r == last.result
        IN /\ r.outcome = "return"
           /\ r.value.type = "str"
           /\ Len(r.value.val) = Len(f)
           /\ \A i \in 1..Len(f) :
                  r.value.val[i] = (IF f[i] = " " THEN "_" ELSE f[i])
           /\ (f = ProcessName => r.value.val = Process_Name)

(* A name with two spaces has been normalised, after the spec's example. *)
C1_Witness ==
    /\ IsEscapeStr(prev)
    /\ prev.field_name.val = ProcessName
    /\ prev.result = Return(PyStr(Process_Name))
    /\ IsEscapeStr(last)
    /\ last.field_name.val = <<" ", " ">>
    /\ last.result = Return(PyStr(<<"_", "_">>))

(* C2: a field name without a space (the empty name and names with
   characters outside [a-zA-Z0-9_] included) is returned unchanged, whatever
   field_quote and field_quote_pattern are configured. *)
C2_NoSpaceIsIdentity ==
    (IsEscapeStr(last) /\ ~HasSpace(last.field_name.val)) =>
        last.result = Return(last.field_name)

(* A name the quoting pattern does not match came back without quotes, and
   before it the empty name came back empty. *)
C2_Witness ==
    /\ IsEscapeStr(prev)
    /\ prev.field_name.val = <<>>
    /\ prev.result = Return(PyStr(<<>>))
    /\ IsEscapeStr(last)
    /\ last.field_name.val = <<"a", ".", "b">>
    /\ last.result = Return(PyStr(<<"a", ".", "b">>))
    /\ backend.field_quote = <<"'">>
    /\ backend.field_quote_pattern_negation
    /\ \E i \in 1..3 : last.field_name.val[i] \notin WordChars

(* C3: for a condition string C, finalize_query_default returns exactly
   "SELECT * FROM <TABLE_NAME> WHERE " + C + ";": it begins with the prefix,
   holds C right after it and nothing else but the closing ";". *)
C3_StatementShape ==
    IsFinalizeStr(last) =>
        LET C == last.query.val
            r == last.result
            n == Len(StatementPrefix)
        IN /\ r.outcome = "return"
           /\ r.value.type = "str"
           /\ Len(r.value.val) = n + Len(C) + 1
           /\ SubSeq(r.value.val, 1, n) = StatementPrefix
           /\ SubSeq(r.value.val, n + 1, n + Len(C)) = C
           /\ r.value.val[n + Len(C) + 1] = ";"
           /\ r.value.val = StatementPrefix \o C \o <<";">>

(* A non-empty condition has been wrapped. *)
C3_Witness ==
    /\ IsFinalizeStr(last)
    /\ last.query.val = <<"a">>
    /\ last.result = Return(PyStr(StatementPrefix \o <<"a", ";">>))

(* C5 as stated: every call of either method, a null field name included,
   returns a string and never ends in an error. *)
C5_TotalOnEveryInput ==
    (IsFinalize(last) \/ IsEscape(last)) =>
        /\ last.result.outcome = "return"
        /\ last.result.value.type = "str"

(* C5, amended: finalize_query_default returns a string for every condition
   and escape_and_quote_field returns a string for every string field name,
   the empty ones included; on an absent (None) field name
   escape_and_quote_field raises AttributeError. *)
C5_TotalOnStrings ==
    /\ (IsFinalize(last) \/ IsEscapeStr(last)) =>
           /\ last.result.outcome = "return"
           /\ last.result.value.type = "str"
    /\ (IsEscape(last) /\ last.field_name = PyNone) =>
           last.result = Raise("AttributeError")

(* The empty condition and the empty field name were answered, and then the
   absent field name raised. *)
C5_Witness ==
    /\ IsEscapeStr(prev)
    /\ prev.field_name.val = <<>>
    /\ prev.result.outcome = "return"
    /\ IsEscape(last)
    /\ last.field_name = PyNone
    /\ last.result.outcome = "raise"

(* C6: after any calls, every configuration value of the backend is the one
   it started with, and the rule and conversion state handed to
   finalize_query_default are as they were handed in. *)
C6_Stateless ==
    /\ backend = SurrealQLBackend
    /\ backend.table = <<"<","T","A","B","L","E","_","N","A","M","E",">">>
    /\ \A c \in {prev, last} :
           IsFinalize(c) => (c.rule_after = c.rule /\ c.state_after = c.state)

(* Both methods have been called, finalize_query_default with a rule that
   declares fields and a state that holds a deferred expression. *)
C6_Witness ==
    /\ IsEscape(prev)
    /\ IsFinalize(last)
    /\ last.rule.fields # <<>>
    /\ last.state.deferred # <<>>
    /\ last.rule_after = last.rule
    /\ last.state_after = last.state

(* C7: finalization validates nothing: the empty condition, which is also
   deferred_only_query, gives "SELECT * FROM <TABLE_NAME> WHERE ;", and a
   condition holding ";", braces or the template's own text is wrapped as it
   is; no condition is rejected or rewritten. *)
C7_NoValidation ==
    IsFinalizeStr(last) =>
        LET C == last.query.val
        IN /\ last.result.outcome = "return"
           /\ (C = backend.deferred_only_query =>
                   last.result.value.val =
                       <<"S","E","L","E","C","T"," ","*"," ","F","R","O","M"," ",
                         "<","T","A","B","L","E","_","N","A","M","E",">",
                         " ","W","H","E","R","E"," ",";">>)
           /\ ((\E i \in 1..Len(C) : C[i] \in {";", "{", "}"}) =>
                   last.result.value.val = StatementPrefix \o C \o <<";">>)

(* The template's own text was wrapped, and then the empty condition. *)
C7_Witness ==
    /\ IsFinalizeStr(prev)
    /\ prev.query.val = TemplateText
    /\ prev.result = Return(PyStr(StatementPrefix \o TemplateText \o <<";">>))
    /\ IsFinalizeStr(last)
    /\ last.query.val = <<>>
    /\ backend.deferred_only_query = <<>>
    /\ last.result.outcome = "return"

(* C8: the statement depends on the condition alone: two calls with the same
   condition return the same statement whatever rule, index and state they
   were given, and every statement selects "*" from "<TABLE_NAME>". *)
C8_ConditionAlone ==
    /\ (IsFinalize(prev) /\ IsFinalize(last) /\ prev.query = last.query) =>
           prev.result = last.result
    /\ IsFinalize(last) =>
           /\ last.result.outcome = "return"
           /\ SubSeq(last.result.value.val, 1, Len(SelectAllFromTable))
                  = SelectAllFromTable

(* Two calls with the same condition differed in rule (one declaring
   fields), index and state. *)
C8_Witness ==
    /\ IsFinalizeStr(prev)
    /\ IsFinalizeStr(last)
    /\ prev.query = last.query
    /\ prev.rule.fields = <<>>
    /\ last.rule.fields # <<>>
    /\ prev.index # last.index
    /\ prev.state # last.state
    /\ prev.result = last.result

(* C9: the result of escape_and_quote_field holds no space, and
   escape_and_quote_field returns that result unchanged. *)
C9_Idempotent ==
    /\ IsEscapeStr(last) =>
           /\ last.result.outcome = "return"
           /\ ~HasSpace(last.result.value.val)
           /\ escape_and_quote_field(backend, last.result.value).result
                  = last.result
    /\ (IsEscapeStr(prev) /\ IsEscapeStr(last)
            /\ prev.result.outcome = "return"
            /\ last.field_name = prev.result.value) =>
           last.result = prev.result

(* A name with a space was normalised and its result normalised again. *)
C9_Witness ==
    /\ IsEscapeStr(prev)
    /\ HasSpace(prev.field_name.val)
    /\ IsEscapeStr(last)
    /\ last.field_name = prev.result.value
    /\ last.result = prev.result

(* Two names collide: equal length, and wherever they differ one holds a
   space and the other a space or an underscore. *)
Collide(a, b) ==
    /\ Len(a) = Len(b)
    /\ \A i \in 1..Len(a) :
           \/ a[i] = b[i]
           \/ (a[i] = " " /\ b[i] \in {" ", "_"})
           \/ (b[i] = " " /\ a[i] \in {" ", "_"})

(* C10: two field names get the same result exactly when they collide;
   "a b" and "a_b" both give "a_b", with no error. *)
C10_NotInjective ==
    (IsEscapeStr(prev) /\ IsEscapeStr(last)) =>
        LET a == prev.field_name.val
            b == last.field_name.val
        IN /\ prev.result.outcome = "return"
           /\ last.result.outcome = "return"
           /\ (prev.result = last.result) <=> Collide(a, b)
           /\ (a = <<"a", " ", "b">> /\ b = <<"a", "_", "b">>) =>
                  /\ prev.result.value.val = <<"a", "_", "b">>
                  /\ last.result.value.val = <<"a", "_", "b">>

(* The distinct names "a b" and "a_b" were both normalised to "a_b". *)
C10_Witness ==
    /\ IsEscapeStr(prev)
    /\ prev.field_name.val = <<"a", " ", "b">>
    /\ IsEscapeStr(last)
    /\ last.field_name.val = <<"a", "_", "b">>
    /\ prev.field_name # last.field_name
    /\ prev.result = Return(PyStr(<<"a", "_", "b">>))
    /\ last.result = Return(PyStr(<<"a", "_", "b">>))

====
